---- MODULE Spec2Model ----
(***************************************************************************)
(* Model of the two page components of the app directory:                  *)
(*   src/app/page.tsx            the Landing View, served at "/"           *)
(*   src/app/dashboard/page.tsx  the Echo View, served at "/dashboard"     *)
(* A step of the model is one event of the single-threaded host: a page    *)
(* load, a click on the landing link, the router committing a requested    *)
(* navigation, or a change event of the dashboard's text input together    *)
(* with the synchronous re-render it causes.                               *)
(***************************************************************************)
EXTENDS Naturals, Sequences, FiniteSets, TLC

\* ---------------------------------------------------------------- bounds
\* Longest text the input event delivers in the model.
MaxLen == 3

\* Characters the user types in the model.
Alphabet == {"A", "l", "i"}

RECURSIVE Strs(_)
Strs(n) ==
  IF n = 0 THEN {""}
  ELSE Strs(n - 1) \cup {s \o c : s \in Strs(n - 1), c \in Alphabet}

\* Every value evt.target.value takes in the model.
Strings == Strs(MaxLen)

\* ------------------------------------------------------- file-based routes
Routes == {"/", "/dashboard"}

\* A mutant of Select: the two page files swapped.
Select_Swapped(addr) ==
  IF addr = "/" THEN "DashboardPage" ELSE "page"

\* The component whose page.tsx lies at the address' directory under app/.
Select(addr) ==
  IF addr = "/" THEN "page" ELSE "DashboardPage"

\* ------------------------------------------------------------ Landing View
\* A mutant of page: the link points back to the landing page.
page_LinkHome ==
  [h2 |-> "Home Page",
   link |-> [href |-> "/", label |-> "To Dashboard"]]

\* A mutant of page: another heading.
page_Heading ==
  [h2 |-> "Home",
   link |-> [href |-> "/dashboard", label |-> "To Dashboard"]]

\* The element tree page() returns.
page ==
  [h2 |-> "Home Page",
   link |-> [href |-> "/dashboard", label |-> "To Dashboard"]]

\* --------------------------------------------------------------- Echo View
LogLine == "Dashboard client-component"

\* A mutant of InitialName: a non-empty default.
InitialName_A == "A"

\* The argument of useState.
InitialName == ""

\* useState: the cell is <<>> on the first render of an instance, and holds
\* the current state afterwards.
useState(initial, cell) ==
  IF cell = <<>> THEN initial ELSE cell[1]

\* A mutant of setName: the delivered value is appended (delta handling).
setName_Accumulate(cell, v) == <<cell[1] \o v>>

\* A mutant of setName: the empty value is rejected.
setName_RejectEmpty(cell, v) == IF v = "" THEN cell ELSE <<v>>

\* A mutant of setName: values of the longest length are rejected.
setName_Limit(cell, v) == IF Len(v) >= MaxLen THEN cell ELSE <<v>>

\* A mutant of setName: setting the current value again clears the state.
setName_Toggle(cell, v) == IF cell = <<v>> THEN <<"">> ELSE <<v>>

\* A mutant of setName: once the state is non-empty it is frozen.
setName_Once(cell, v) == IF cell # <<"">> THEN cell ELSE <<v>>

\* setName(evt.target.value): the cell is replaced by the value.
setName(cell, v) == <<v>>

\* A mutant of DashboardPage: the greeting lacks the exclamation mark.
DashboardPage_NoBang(cell) ==
  LET name == useState(InitialName, cell)
  IN [log |-> <<LogLine>>,
      cell |-> <<name>>,
      tree |-> [h1 |-> "DashboardPage",
                input |-> name,
                h2 |-> "Hello, " \o name]]

\* A mutant of DashboardPage: the input is not bound to the state.
DashboardPage_Uncontrolled(cell) ==
  LET name == useState(InitialName, cell)
  IN [log |-> <<LogLine>>,
      cell |-> <<name>>,
      tree |-> [h1 |-> "DashboardPage",
                input |-> InitialName,
                h2 |-> "Hello, " \o name \o "!"]]

\* A mutant of DashboardPage: the line is logged on the first render only.
DashboardPage_LogOnMount(cell) ==
  LET name == useState(InitialName, cell)
  IN [log |-> IF cell = <<>> THEN <<LogLine>> ELSE <<>>,
      cell |-> <<name>>,
      tree |-> [h1 |-> "DashboardPage",
                input |-> name,
                h2 |-> "Hello, " \o name \o "!"]]

\* A mutant of DashboardPage: rendering resets the state.
DashboardPage_ResetOnRender(cell) ==
  LET name == useState(InitialName, cell)
  IN [log |-> <<LogLine>>,
      cell |-> <<InitialName>>,
      tree |-> [h1 |-> "DashboardPage",
                input |-> name,
                h2 |-> "Hello, " \o name \o "!"]]

\* A mutant of DashboardPage: the view carries a link back to "/".
DashboardPage_BackLink(cell) ==
  LET name == useState(InitialName, cell)
  IN [log |-> <<LogLine>>,
      cell |-> <<name>>,
      tree |-> [h1 |-> "DashboardPage",
                input |-> name,
                h2 |-> "Hello, " \o name \o "!",
                link |-> [href |-> "/", label |-> "Home"]]]

\* One evaluation of DashboardPage() on the hook cell of its instance: the
\* line it logs, the cell after useState, and the element tree it returns.
DashboardPage(cell) ==
  LET name == useState(InitialName, cell)
  IN [log |-> <<LogLine>>,
      cell |-> <<name>>,
      tree |-> [h1 |-> "DashboardPage",
                input |-> name,
                h2 |-> "Hello, " \o name \o "!"]]

\* One evaluation of the selected component.
Evaluate(comp, cell) ==
  IF comp = "page"
  THEN [log |-> <<>>, cell |-> cell, tree |-> page]
  ELSE DashboardPage(cell)

\* A mutant of Renders: a state change is rendered twice.
Renders_Twice(old, next) ==
  IF next = old THEN {0, 1} ELSE {2}

\* A mutant of Renders: the render of a state change may be skipped.
Renders_MaySkip(old, next) == {0, 1}

\* How often the component function runs for a state update: once when the
\* state changed; when it did not, the update is dropped, possibly after
\* one more run of the function.
Renders(old, next) ==
  IF next = old THEN {0, 1} ELSE {1}

\* k evaluations of DashboardPage() in a row on an existing instance: the
\* lines logged, the cell and the tree they leave.
RECURSIVE Rerender(_, _, _)
Rerender(k, cell, tree) ==
  IF k = 0
  THEN [log |-> <<>>, cell |-> cell, tree |-> tree]
  ELSE LET r == DashboardPage(cell)
           rest == Rerender(k - 1, r.cell, r.tree)
       IN [log |-> r.log \o rest.log, cell |-> rest.cell, tree |-> rest.tree]

\* A mutant of Unmount: the state outlives the instance.
Unmount_Keep(cell) == cell

\* Tearing an instance down discards its hook cell.
Unmount(cell) == <<>>

\* ------------------------------------------------------------------- state
VARIABLES
  address,     \* the current logical address
  view,        \* the component mounted for it: "page" or "DashboardPage"
  hook,        \* the useState cell of the mounted DashboardPage: <<>> or <<name>>
  dom,         \* the committed element tree
  console,     \* the lines logged during the last step
  evals,       \* how often the component function ran during the last step
  navRequest,  \* the navigation the Link has requested: <<>> or <<href>>
  evt,         \* the last event: its type, its value, the hook cell it found
  tabs,        \* two Echo View instances side by side: cell, tree, history
  tabEvt       \* the last event of the two instances: the instance, the value

vars ==
  <<address, view, hook, dom, console, evals, navRequest, evt, tabs, tabEvt>>

\* The instances of the Echo View of the two-instance specification.
Instances == {1, 2}

\* A freshly mounted Echo View instance.
FreshTab ==
  LET r == DashboardPage(Unmount(<<>>))
  IN [hook |-> r.cell, dom |-> r.tree, edits |-> "none"]

TabsInit == [i \in Instances |-> FreshTab]

\* The router shows addr: the previous instance is torn down, the component
\* of addr is mounted and evaluated once.
MountAt(addr, cell, e) ==
  LET comp == Select(addr)
      r == Evaluate(comp, Unmount(cell))
  IN /\ address' = addr
     /\ view' = comp
     /\ hook' = r.cell
     /\ dom' = r.tree
     /\ console' = r.log
     /\ evals' = 1
     /\ navRequest' = <<>>
     /\ evt' = e

Init ==
  \E addr \in Routes :
    LET comp == Select(addr)
        r == Evaluate(comp, <<>>)
    IN /\ address = addr
       /\ view = comp
       /\ hook = r.cell
       /\ dom = r.tree
       /\ console = r.log
       /\ evals = 1
       /\ navRequest = <<>>
       /\ evt = [type |-> "load", value |-> addr, prev |-> <<>>]
       /\ tabs = TabsInit
       /\ tabEvt = [type |-> "load", tab |-> 0, value |-> ""]

\* The user loads an address (address bar, reload, back, forward).
HostNavigate(addr) ==
  /\ addr \in Routes
  /\ MountAt(addr, hook, [type |-> "load", value |-> addr, prev |-> hook])
  /\ UNCHANGED <<tabs, tabEvt>>

\* The user activates the link of the rendered tree; only the Landing
\* View's tree has one.
ClickLink ==
  /\ "link" \in DOMAIN dom
  /\ navRequest' = <<dom.link.href>>
  /\ evt' = [type |-> "click", value |-> dom.link.href, prev |-> hook]
  /\ console' = <<>>
  /\ evals' = 0
  /\ UNCHANGED <<address, view, hook, dom, tabs, tabEvt>>

\* The router commits the requested navigation.
RouterCommit ==
  /\ navRequest # <<>>
  /\ MountAt(navRequest[1], hook,
             [type |-> "route", value |-> navRequest[1], prev |-> hook])
  /\ UNCHANGED <<tabs, tabEvt>>

\* The input's onChange handler with evt.target.value = v, and the render
\* the state update causes.  A value equal to the current state leaves the
\* state as it is; the component function may still run once more before
\* the update is dropped.
OnChange(v) ==
  /\ view = "DashboardPage"
  /\ LET next == setName(hook, v)
     IN \E k \in Renders(hook, next) :
          LET r == Rerender(k, next, dom)
          IN /\ hook' = r.cell
             /\ dom' = r.tree
             /\ console' = r.log
             /\ evals' = k
  /\ evt' = [type |-> "change", value |-> v, prev |-> hook]
  /\ UNCHANGED <<address, view, navRequest, tabs, tabEvt>>

Next ==
  \/ \E addr \in Routes : HostNavigate(addr)
  \/ ClickLink
  \/ RouterCommit
  \/ \E v \in Strings : OnChange(v)

Spec == Init /\ [][Next]_vars

TypeOK ==
  /\ address \in Routes
  /\ view \in {"page", "DashboardPage"}
  /\ hook \in {<<>>} \cup {<<s>> : s \in Strings}
  /\ evals \in {0, 1}
  /\ navRequest \in {<<>>} \cup {<<a>> : a \in Routes}
  /\ evt.type \in {"load", "click", "route", "change"}

\* ---------------------------------------------- two Echo View instances
\* Longest text an event delivers to one of the two instances.
MaxTabLen == 2

TabStrings == Strs(MaxTabLen)

\* A mutant of Own: one store shared by all instances.
Own_Shared(ts, i, t) == [j \in DOMAIN ts |-> t]

\* The useState cell and the tree belong to the instance that rendered.
Own(ts, i, t) == [ts EXCEPT ![i] = t]

\* The change handler of instance i with evt.target.value = v, and the
\* render it causes.
TabChange(i, v) ==
  /\ LET t == tabs[i]
         next == setName(t.hook, v)
     IN \E k \in Renders(t.hook, next) :
          LET r == Rerender(k, next, t.dom)
          IN tabs' = Own(tabs, i,
                         [hook |-> r.cell,
                          dom |-> r.tree,
                          edits |-> IF t.edits = "none" THEN "one" ELSE "many"])
  /\ tabEvt' = [type |-> "change", tab |-> i, value |-> v]
  /\ UNCHANGED <<address, view, hook, dom, console, evals, navRequest, evt>>

\* Instance i is torn down and mounted again.
TabReload(i) ==
  /\ tabs' = Own(tabs, i, FreshTab)
  /\ tabEvt' = [type |-> "load", tab |-> i, value |-> ""]
  /\ UNCHANGED <<address, view, hook, dom, console, evals, navRequest, evt>>

InitTwo == Init /\ view = "DashboardPage"

NextTwo ==
  \/ \E i \in Instances : \E v \in TabStrings : TabChange(i, v)
  \/ \E i \in Instances : TabReload(i)

SpecTwo == InitTwo /\ [][NextTwo]_vars

\* ------------------------------------------ the views under short inputs
\* The steps of Next with the delivered values drawn from TabStrings: the
\* states the change handler is then tried from, with every value of
\* Strings, are fewer.
NextShort ==
  \/ \E addr \in Routes : HostNavigate(addr)
  \/ ClickLink
  \/ RouterCommit
  \/ \E v \in TabStrings : OnChange(v)

SpecShort == Init /\ [][NextShort]_vars

\* ------------------------------------------------------------- properties
IsMount == evt.type \in {"load", "route"}

\* C1: after the input's change handler has run with value s, the rendered
\* greeting is "Hello, " followed by s followed by "!".
C1_GreetingOfValue ==
  evt.type = "change" => dom.h2 = "Hello, " \o evt.value \o "!"

C1_Witness ==
  /\ evt.type = "change"
  /\ evt.value = "Ali"
  /\ dom.h2 = "Hello, Ali!"

\* C2: whenever the Echo View is mounted, the input displays the current
\* state and the greeting is the template filled with the current state.
C2_RenderedIsCurrent ==
  view = "DashboardPage" =>
    /\ hook # <<>>
    /\ dom.input = hook[1]
    /\ dom.h2 = "Hello, " \o hook[1] \o "!"

C2_Witness ==
  /\ view = "DashboardPage"
  /\ evt.type = "change"
  /\ evt.prev = <<"A">>
  /\ hook = <<"Al">>
  /\ dom.input = "Al"

\* C3: on the first render of an Echo View, before any change event, the
\* state is the empty string, the field is empty and the greeting is
\* "Hello, !".
C3_InitialRender ==
  (IsMount /\ view = "DashboardPage") =>
    /\ hook = <<"">>
    /\ dom.input = ""
    /\ dom.h2 = "Hello, !"

C3_Witness ==
  /\ evt.type = "load"
  /\ evt.prev = <<>>
  /\ view = "DashboardPage"
  /\ dom.h2 = "Hello, !"

\* C4: a click on the Landing View's link requests "/dashboard"; no other
\* address is ever requested, and the router then shows "/dashboard".
C4_LinkRequestsDashboard ==
  /\ evt.type = "click" => navRequest = <<"/dashboard">>
  /\ navRequest \in {<<>>, <<"/dashboard">>}
  /\ evt.type = "route" => address = "/dashboard"

C4_Witness ==
  /\ evt.type = "click"
  /\ view = "page"
  /\ navRequest = <<"/dashboard">>

\* C5: after a change event the state is the value the event delivered,
\* whatever the state was before: values replace, they do not accumulate.
C5_LastValueWins ==
  evt.type = "change" =>
    /\ hook = <<evt.value>>
    /\ dom.input = evt.value

C5_Witness ==
  /\ evt.type = "change"
  /\ evt.prev = <<"Al">>
  /\ evt.value = "Ali"
  /\ hook = <<"Ali">>
  /\ dom.h2 = "Hello, Ali!"

\* C6: while the Echo View is mounted the change handler accepts every
\* string v, it has no outcome but the state being v, and every change
\* step leaves the state equal to the value delivered.
C6_UpdateIsTotal ==
  /\ [](view = "DashboardPage" =>
          \A v \in Strings :
            /\ ENABLED OnChange(v)
            /\ ~ENABLED (OnChange(v) /\ hook' # <<v>>))
  /\ [][(evt'.type = "change" /\ OnChange(evt'.value)) =>
          hook' = <<evt'.value>>]_vars

C6_Witness ==
  /\ evt.type = "change"
  /\ Len(evt.value) = MaxTabLen
  /\ evt.prev = <<"">>
  /\ hook = <<evt.value>>

\* C7: a change event delivering the empty string after a non-empty state
\* leaves the state and the rendered tree equal to those of the first
\* render.
C7_EmptyRestoresInitial ==
  (evt.type = "change" /\ evt.value = "" /\ evt.prev # <<"">>) =>
    /\ hook = DashboardPage(<<>>).cell
    /\ dom = DashboardPage(<<>>).tree
    /\ dom.input = ""
    /\ dom.h2 = "Hello, !"

C7_Witness ==
  /\ evt.type = "change"
  /\ evt.value = ""
  /\ evt.prev = <<"Ali">>
  /\ dom.h2 = "Hello, !"

\* C8: every evaluation of the Echo View logs the line: the first render
\* logs it, and so does the render of every state change.
C8_LoggedOnEveryRender ==
  view = "DashboardPage" =>
    /\ console = [i \in 1..evals |-> LogLine]
    /\ (IsMount \/ (evt.type = "change" /\ evt.prev # hook)) =>
         console = <<LogLine>>

C8_Witness ==
  /\ view = "DashboardPage"
  /\ evt.type = "change"
  /\ evt.prev = <<"A">>
  /\ hook = <<"Al">>
  /\ console = <<LogLine>>

\* C9: the state does not outlive its instance: no state is kept while
\* the Landing View is shown, and every newly mounted Echo View starts
\* from the empty string, whatever the previous instance held.
C9_StateDiscarded ==
  [][(evt'.type \in {"load", "route"}) =>
       /\ view' = "page" => hook' = <<>>
       /\ view' = "DashboardPage" =>
            (hook' = <<"">> /\ dom'.h2 = "Hello, !")]_vars

C9_Witness ==
  /\ evt.type = "load"
  /\ evt.prev = <<"Ali">>
  /\ view = "DashboardPage"
  /\ hook = <<"">>
  /\ dom.h2 = "Hello, !"

\* C10: the view rendered is the one of the current address: the Landing
\* View at "/", the Echo View at "/dashboard".
C10_ViewOfAddress ==
  /\ address = "/" =>
       (view = "page" /\ "link" \in DOMAIN dom /\ dom.h2 = "Home Page")
  /\ address = "/dashboard" =>
       (view = "DashboardPage" /\ "h1" \in DOMAIN dom
          /\ dom.h1 = "DashboardPage")

C10_Witness ==
  /\ evt.type = "route"
  /\ address = "/dashboard"
  /\ view = "DashboardPage"
  /\ dom.h1 = "DashboardPage"

\* C11: the Echo State changes only in the change handler: a click on the
\* link leaves it alone, the render passes and the log line leave the cell
\* as the handler set it, and every other change of the cell is the
\* replacement of the instance by a mount.
C11_OnlyHandlerMutates ==
  [][/\ evt'.type = "click" => hook' = hook
     /\ evt'.type = "change" => hook' = setName(hook, evt'.value)
     /\ hook' # hook => evt'.type \in {"change", "load", "route"}]_vars

C11_Witness ==
  /\ evt.type = "change"
  /\ evals = 1
  /\ console = <<LogLine>>
  /\ evt.prev = <<"Ali">>
  /\ hook = <<"Ali">>

\* C12: with two Echo View instances, an event of one instance leaves the
\* state and the rendered tree of the other as they were.
C12_InstancesIsolated ==
  [][\A i \in Instances : tabEvt'.tab # i => tabs'[i] = tabs[i]]_vars

C12_Witness ==
  /\ tabEvt.type = "change"
  /\ tabEvt.tab = 1
  /\ tabs[1].hook = <<"Al">>
  /\ tabs[2].hook = <<"A">>
  /\ tabs[2].dom.h2 = "Hello, A!"

\* C13: the Landing View holds no state and its tree is always the same:
\* the heading "Home Page" and the link "To Dashboard" to "/dashboard".
C13_LandingIsFixed ==
  view = "page" =>
    /\ hook = <<>>
    /\ dom = [h2 |-> "Home Page",
              link |-> [href |-> "/dashboard", label |-> "To Dashboard"]]

C13_Witness ==
  /\ view = "page"
  /\ evt.type = "load"
  /\ evt.prev = <<"Ali">>
  /\ dom.h2 = "Home Page"
  /\ dom.link.href = "/dashboard"

C15_NoTerminalState ==
  view = "DashboardPage" =>
    \A v \in Strings : ENABLED (OnChange(v) /\ hook' = <<v>>)

C15_Witness ==
  /\ view = "DashboardPage"
  /\ evt.type = "change"
  /\ evt.prev = <<"Al">>
  /\ hook = <<"A">>

\* C16: two instances holding the same value show the same tree, whatever
\* their histories were.
C16_RenderOfStateAlone ==
  tabs[1].hook = tabs[2].hook => tabs[1].dom = tabs[2].dom

C16_Witness ==
  /\ tabs[1].hook = <<"Al">>
  /\ tabs[2].hook = <<"Al">>
  /\ tabs[1].edits = "one"
  /\ tabs[2].edits = "many"
  /\ tabs[1].dom.h2 = "Hello, Al!"

\* C17: a change event delivering the current value leaves the state and
\* the rendered tree as they were.
C17_UpdateIdempotent ==
  [][(evt'.type = "change" /\ hook = <<evt'.value>>) =>
       (hook' = hook /\ dom' = dom)]_vars

C17_Witness ==
  /\ evt.type = "change"
  /\ evt.prev = <<"Al">>
  /\ evt.value = "Al"
  /\ hook = <<"Al">>
  /\ dom.h2 = "Hello, Al!"

\* C18: no step of the Echo View requests a navigation or changes the
\* address; a request is issued only by the Landing View's link and is for
\* "/dashboard"; the address goes from "/dashboard" to "/" only by a load
\* of the host.
C18_EchoNeverNavigates ==
  [][/\ (view = "DashboardPage" /\ evt'.type # "load") =>
          (address' = address /\ navRequest' = <<>>)
     /\ (navRequest' # <<>> /\ navRequest' # navRequest) =>
          (evt'.type = "click" /\ view = "page"
             /\ navRequest' = <<"/dashboard">>)
     /\ (address = "/dashboard" /\ address' = "/") =>
          evt'.type = "load"]_vars

C18_Witness ==
  /\ evt.type = "change"
  /\ address = "/dashboard"
  /\ navRequest = <<>>
  /\ hook = <<"Ali">>

====
